---- MODULE Spec2Model ----
(***************************************************************************)
(* Model of the momail-backend triage core: the Decision Policy            *)
(* (AgentService.decide_action), the triage of one message                 *)
(* (AgentService.process_email), and the Action Ledger as it is driven by  *)
(* the approval endpoint (approve_action) and by the bulk execution        *)
(* endpoint (execute_pending_actions), the triage loop                     *)
(* (AgentService.run_loop) with its start and stop endpoints, the bulk     *)
(* archive and bulk delete endpoints (bulk_archive_sender,                 *)
(* bulk_delete_emails), the demo branch of check_for_new_emails, and the   *)
(* configuration endpoints (get_config, update_config).                    *)
(*                                                                         *)
(* Strings that the code inspects character by character (sender          *)
(* addresses, the comma separated white/blacklist) are sequences of        *)
(* one-character strings.  Strings the code only passes along or tests for *)
(* emptiness (reply texts, labels) are atomic strings.                     *)
(***************************************************************************)
EXTENDS Integers, Sequences, FiniteSets, TLC

\* ------------------------------------------------------------------ bounds
MaxSenderLen == 2     \* longest sender address drawn
MaxEntries == 2       \* most comma separated segments in a stored list
MaxRequests == 3      \* requests served by the approval and bulk endpoints
MaxStarts == 2        \* run_loop tasks that start_agent launches

None == "<None>"

\* Python truthiness of an Optional[str]
Truthy(x) == x # None /\ x # ""

\* ----------------------------------------------------------- string helpers
SenderChars == {"a", "B"}

\* str.lower() on one character
LowerChar(c) == CASE c = "A" -> "a" [] c = "B" -> "b" [] OTHER -> c

\* str.lower()
Lower(s) == [i \in 1..Len(s) |-> LowerChar(s[i])]

\* str.strip(): drop leading and trailing blanks
RECURSIVE LStrip(_)
LStrip(s) == IF s # <<>> /\ Head(s) = " " THEN LStrip(Tail(s)) ELSE s

RECURSIVE RStrip(_)
RStrip(s) ==
    IF s # <<>> /\ s[Len(s)] = " " THEN RStrip(SubSeq(s, 1, Len(s) - 1)) ELSE s

Strip(s) == RStrip(LStrip(s))

\* str.split(","): the segments between commas; "" gives one empty segment
RECURSIVE SplitFrom(_, _, _)
SplitFrom(s, i, cur) ==
    IF i > Len(s) THEN <<cur>>
    ELSE IF s[i] = "," THEN <<cur>> \o SplitFrom(s, i + 1, <<>>)
    ELSE SplitFrom(s, i + 1, Append(cur, s[i]))

Split(s) == SplitFrom(s, 1, <<>>)

\* Python's `sub in s` on strings
Contains(s, sub) ==
    \E i \in 0..(Len(s) - Len(sub)) : SubSeq(s, i + 1, i + Len(sub)) = sub

\* all sequences over S of length at most n
SeqsUpTo(S, n) == UNION {[1..k -> S] : k \in 0..n}

\* ------------------------------------------------------------ config parsing
ParseList_KeepEmpty(text) ==
    IF text = <<>> THEN <<>>
    ELSE LET segs == Split(text)
         IN  [i \in 1..Len(segs) |-> Lower(Strip(segs[i]))]

\* AgentConfig.get_whitelist / get_blacklist share one body
ParseList(text) ==
    IF text = <<>> THEN <<>>
    ELSE LET segs == Split(text)
             kept == SelectSeq(segs, LAMBDA e : Strip(e) # <<>>)
         IN  [i \in 1..Len(kept) |-> Lower(Strip(kept[i]))]

\* the row AgentConfig() inserts when none exists (column defaults)
DefaultConfig ==
    [auto_reply_whitelist |-> <<>>,
     auto_reply_blacklist |->
        <<"n","o","r","e","p","l","y","@",",",
          "n","o","-","r","e","p","l","y","@",",",
          "d","o","n","o","t","r","e","p","l","y","@">>,
     check_interval |-> 60,
     dry_run_mode |-> FALSE,
     enable_auto_reply |-> TRUE,
     enable_spam_filter |-> TRUE,
     enable_learning |-> FALSE]

get_whitelist(config) == ParseList(config.auto_reply_whitelist)

get_blacklist(config) == ParseList(config.auto_reply_blacklist)

\* ---------------------------------------------------------- Decision Policy
Labels == {"urgent", "routine", "spam", "personal", "promo"}

\* what one Responder call (generate_smart_reply) can do: return a text,
\* return an empty text, or raise
ResponderOutcomes ==
    {[raised |-> FALSE, text |-> "Thanks"],
     [raised |-> FALSE, text |-> ""],
     [raised |-> TRUE, text |-> None]}

Reason(tag, arg) == [tag |-> tag, arg |-> arg]

Decision(type, message, reason, called) ==
    [raised |-> FALSE, type |-> type, message |-> message, reason |-> reason,
     responder_called |-> called]

\* the exception of the Responder leaves decide_action
DecisionRaised ==
    [raised |-> TRUE, type |-> None, message |-> None,
     reason |-> Reason(None, None), responder_called |-> TRUE]

\* any(entry in sender for entry in entries)
AnyIn(entries, sender) == \E i \in 1..Len(entries) : Contains(sender, entries[i])

IsBlacklisted_Exact(sender, blacklist) ==
    \E i \in 1..Len(blacklist) : sender = blacklist[i]

IsBlacklisted(sender, blacklist) == AnyIn(blacklist, sender)

IsWhitelisted(sender, whitelist) == AnyIn(whitelist, sender)

WhitelistedDecision_ReplyAlways(classification, responder) ==
    IF responder.raised THEN DecisionRaised
    ELSE Decision("reply", responder.text,
                  Reason("Whitelisted sender - auto-reply", None), TRUE)

\* the branch taken for a whitelisted sender
WhitelistedDecision(classification, responder) ==
    IF classification \in {"routine", "spam", "personal"}
    THEN IF responder.raised THEN DecisionRaised
         ELSE Decision("reply", responder.text,
                       Reason("Whitelisted sender - auto-reply", None), TRUE)
    ELSE Decision("notify", None,
                  Reason("Urgent email from whitelisted sender", None), FALSE)

ClassificationDecision_Partial(classification) ==
    CASE classification = "urgent" ->
           Decision("notify", None,
                    Reason("Urgent email requiring immediate attention", None), FALSE)
      [] classification = "routine" ->
           Decision("notify", None,
                    Reason("Routine email from non-whitelisted sender", None), FALSE)
      [] classification = "spam" ->
           Decision("archive", None, Reason("Classified as spam", None), FALSE)
      [] classification = "personal" ->
           Decision("notify", None, Reason("Personal email", None), FALSE)
      [] OTHER -> DecisionRaised

ClassificationDecision_NoSpamFilter(classification) ==
    CASE classification = "urgent" ->
           Decision("notify", None,
                    Reason("Urgent email requiring immediate attention", None), FALSE)
      [] classification = "routine" ->
           Decision("notify", None,
                    Reason("Routine email from non-whitelisted sender", None), FALSE)
      [] classification = "personal" ->
           Decision("notify", None, Reason("Personal email", None), FALSE)
      [] OTHER ->
           Decision("notify", None,
                    Reason("Unknown classification", classification), FALSE)

\* the branch taken for a sender on neither list
ClassificationDecision(classification) ==
    CASE classification = "urgent" ->
           Decision("notify", None,
                    Reason("Urgent email requiring immediate attention", None), FALSE)
      [] classification = "routine" ->
           Decision("notify", None,
                    Reason("Routine email from non-whitelisted sender", None), FALSE)
      [] classification = "spam" ->
           Decision("archive", None, Reason("Classified as spam", None), FALSE)
      [] classification = "personal" ->
           Decision("notify", None, Reason("Personal email", None), FALSE)
      [] OTHER ->
           Decision("notify", None,
                    Reason("Unknown classification", classification), FALSE)

\* AgentService.decide_action; `responder` is what the Responder does if called
decide_action(parsed_from, classification, config, responder) ==
    LET sender == Lower(parsed_from)
        AUTO_REPLY_WHITELIST == get_whitelist(config)
        AUTO_REPLY_BLACKLIST == get_blacklist(config)
    IN  IF IsBlacklisted(sender, AUTO_REPLY_BLACKLIST)
        THEN Decision("notify", None, Reason("Blacklisted sender", sender), FALSE)
        ELSE IF IsWhitelisted(sender, AUTO_REPLY_WHITELIST)
        THEN WhitelistedDecision(classification, responder)
        ELSE ClassificationDecision(classification)

\* -------------------------------------------------------------------- state
VARIABLES
    agent_config,   \* table agent_config: id -> row (no row, or the row 1)
    emails,         \* table emails: id -> [from_address, classification, processed]
    actions,        \* table actions: id (1..Len) -> row
    unread,         \* the Mail Provider's unread messages: id -> sender address
    seen_emails,    \* AgentService.seen_emails
    triage,         \* the process_email call in flight
    triage_log,     \* per message, how its process_email call ended
    gmail_calls,    \* the send and archive calls the Mail Provider received
    sent_emails,    \* the sent-mail records approve_action adds to emails
    session,        \* per request thread: the handler in flight and its session
    requests,       \* approve and execute-pending requests started so far
    response,       \* what the last step returned to its caller, if it returned
    running,        \* AgentService.running
    loop,           \* per run_loop task: where it is and its current iteration
    stop_called     \* stop() was called and start_agent has not been since

vars == <<agent_config, emails, actions, unread, seen_emails, triage, triage_log,
          gmail_calls, sent_emails, session, requests, response, running, loop,
          stop_called>>

storeVars == <<agent_config, emails, actions>>
loopVars == <<running, loop, stop_called>>
triageVars == <<unread, seen_emails, triage, triage_log, loopVars>>
gatewayVars == <<gmail_calls, sent_emails, session, requests>>

Workers == {"w1", "w2"}

IdleSession ==
    [pc |-> "idle", action_id |-> 0, edited_reply |-> None, todo |-> <<>>,
     selected |-> {}, executed |-> {}, failed |-> {}, update |-> <<>>]

NoResponse ==
    [kind |-> "none", action_id |-> 0, status |-> None, actual_reply |-> None,
     edited_reply |-> None, body_sent |-> None, executed |-> {}, failures |-> {}]

IdleTriage ==
    [pc |-> "idle", email_id |-> None, parsed_from |-> <<>>, classification |-> None]

\* the parameter check_interval of run_loop: its default, since lifespan and
\* start_agent both call run_loop without an argument
RunLoopInterval == 60

\* the run_loop tasks: task 0 is the one lifespan creates, the others are the
\* background tasks of start_agent
Tasks == 0..MaxStarts

\* a run_loop task: pc is absent (not created), scheduled (created, body not
\* yet entered), batch (inside the for loop of an iteration), sleeping (in
\* asyncio.sleep) or done (left the while loop).  batch is new_emails of the
\* current iteration, todo what the for loop has not reached yet, done the
\* candidates process_email was called for, fetched how check_for_new_emails
\* ended, session_ok whether the iteration's session can still commit, and
\* stop_in_flight whether stop() was called during this iteration.
NoLoop ==
    [pc |-> "absent", batch |-> <<>>, todo |-> <<>>, done |-> <<>>,
     fetched |-> "none", session_ok |-> TRUE, stop_in_flight |-> FALSE,
     check_interval |-> RunLoopInterval]

\* ------------------------------------------------------------ Triage of one
\* message (AgentService.process_email, settings.demo_mode off)

\* AgentService.get_config: the row 1, created with the defaults if absent
get_config(table) == IF 1 \in DOMAIN table THEN table ELSE (1 :> DefaultConfig)

\* GmailClient.parse_message on the From header: addr.lower().strip()
parse_message(raw_from) == Strip(Lower(raw_from))

check_for_new_emails_All == DOMAIN unread

\* AgentService.check_for_new_emails, settings.demo_mode off
check_for_new_emails ==
    {m \in DOMAIN unread : m \notin DOMAIN emails /\ m \notin seen_emails}

\* what the Classifier call can do: return a label, or raise
ClassifierOutcomes == Labels \cup {"<raise>"}

LogEntry(outcome, sender, classification, decision) ==
    [outcome |-> outcome, sender |-> sender, classification |-> classification,
     decision |-> decision]

\* process_email up to the commit of the Email row
ProcessEmailStore(m, label) ==
    /\ triage.pc = "idle"
    /\ m \in check_for_new_emails
    /\ IF label = "<raise>"
       THEN /\ triage_log' = (m :> LogEntry("error", parse_message(unread[m]), None,
                                            DecisionRaised)) @@ triage_log
            /\ UNCHANGED <<emails, triage>>
       ELSE /\ emails' = (m :> [from_address |-> parse_message(unread[m]),
                                classification |-> label,
                                processed |-> FALSE]) @@ emails
            /\ triage' = [pc |-> "stored", email_id |-> m,
                          parsed_from |-> parse_message(unread[m]),
                          classification |-> label]
            /\ UNCHANGED triage_log
    /\ UNCHANGED <<agent_config, actions, unread, seen_emails>>
    /\ UNCHANGED <<gatewayVars, response, loopVars>>

ActionRow_Approved(m, d) ==
    [email_id |-> m, action_type |-> d.type, suggested_reply |-> d.message,
     actual_reply |-> None, reason |-> d.reason, status |-> "approved"]

\* the Action row process_email adds for decision d on message m
ActionRow(m, d) ==
    [email_id |-> m, action_type |-> d.type, suggested_reply |-> d.message,
     actual_reply |-> None, reason |-> d.reason, status |-> "pending"]

\* process_email from decide_action to the commit of the Action row: the writes
SaveDecision(responder) ==
    /\ LET cfg == get_config(agent_config)
           d == decide_action(triage.parsed_from, triage.classification, cfg[1],
                              responder)
           m == triage.email_id
       IN  /\ agent_config' = cfg
           /\ IF d.raised
              THEN /\ triage_log' = (m :> LogEntry("error", triage.parsed_from,
                                         triage.classification, d)) @@ triage_log
                   /\ UNCHANGED <<actions, seen_emails>>
              ELSE /\ actions' = Append(actions, ActionRow(m, d))
                   /\ seen_emails' = seen_emails \cup {m}
                   /\ triage_log' = (m :> LogEntry("saved", triage.parsed_from,
                                         triage.classification, d)) @@ triage_log
    /\ triage' = IdleTriage
    /\ UNCHANGED <<emails, unread>>
    /\ UNCHANGED <<gatewayVars, response>>

ProcessEmailDecide(responder) ==
    /\ triage.pc = "stored"
    /\ SaveDecision(responder)
    /\ UNCHANGED loopVars

\* ------------------------------------------------- specification of triage
SegmentPool == {<<"a">>, <<" ", "B">>, <<" ">>}

RECURSIVE Join(_)
Join(segs) ==
    IF segs = <<>> THEN <<>>
    ELSE IF Len(segs) = 1 THEN segs[1]
    ELSE segs[1] \o <<",">> \o Join(Tail(segs))

StoredLists == {Join(segs) : segs \in SeqsUpTo(SegmentPool, MaxEntries)}

Senders == SeqsUpTo(SenderChars, MaxSenderLen)

PolicyInit ==
    /\ agent_config \in
         {<<>>} \cup
         {(1 :> [DefaultConfig EXCEPT !.auto_reply_whitelist = wl,
                                      !.auto_reply_blacklist = bl]) :
             wl \in StoredLists, bl \in StoredLists}
    /\ emails = <<>>
    /\ actions = <<>>
    /\ unread \in [{"m1"} -> Senders]
    /\ seen_emails = {}
    /\ triage = IdleTriage
    /\ triage_log = <<>>
    /\ gmail_calls = <<>>
    /\ sent_emails = {}
    /\ session = [w \in Workers |-> IdleSession]
    /\ response = NoResponse
    /\ requests = 0
    /\ running = FALSE
    /\ loop = [t \in Tasks |-> NoLoop]
    /\ stop_called = FALSE

PolicyNext ==
    \/ \E m \in DOMAIN unread, label \in ClassifierOutcomes :
          ProcessEmailStore(m, label)
    \/ \E responder \in ResponderOutcomes : ProcessEmailDecide(responder)

PolicySpec == PolicyInit /\ [][PolicyNext]_vars

\* the triage of one message under stored lists with empty and blank
\* segments: "", ",", "a,", ",a", " ,a", "a, " ...
ListSegments == {<<>>, <<" ">>, <<"a">>}

MalformedLists == {Join(segs) : segs \in SeqsUpTo(ListSegments, MaxEntries)}

ListInit ==
    /\ agent_config \in
         {(1 :> [DefaultConfig EXCEPT !.auto_reply_whitelist = wl,
                                      !.auto_reply_blacklist = bl]) :
             wl \in MalformedLists, bl \in MalformedLists}
    /\ emails = <<>>
    /\ actions = <<>>
    /\ unread \in [{"m1"} -> Senders]
    /\ seen_emails = {}
    /\ triage = IdleTriage
    /\ triage_log = <<>>
    /\ gmail_calls = <<>>
    /\ sent_emails = {}
    /\ session = [w \in Workers |-> IdleSession]
    /\ response = NoResponse
    /\ requests = 0
    /\ running = FALSE
    /\ loop = [t \in Tasks |-> NoLoop]
    /\ stop_called = FALSE

ListSpec == ListInit /\ [][PolicyNext]_vars

\* ------------------------------------------------------------ the triage
\* loop (AgentService.run_loop) and its control endpoints (main.py)

\* the order in which the Mail Provider lists its messages
Inbox == <<"m1", "m2">>

list_messages_First ==
    SubSeq(SelectSeq(Inbox, LAMBDA m : m \in DOMAIN unread), 1, 1)

\* GmailClient.list_messages(query="is:unread")
list_messages == SelectSeq(Inbox, LAMBDA m : m \in DOMAIN unread)

\* new_emails as check_for_new_emails returns it, in the provider's order
new_emails == SelectSeq(list_messages, LAMBDA m : m \in check_for_new_emails)

\* run_loop and process_email are synchronous between two sleeps, so a task
\* inside its for loop holds the event loop: no other coroutine runs
ThreadFree == \A t \in Tasks : loop[t].pc # "batch"

Iterate_Crash(ok) ==
    IF ~ok THEN [NoLoop EXCEPT !.pc = "done", !.fetched = "failed"]
    ELSE [NoLoop EXCEPT !.pc = IF new_emails = <<>> THEN "sleeping" ELSE "batch",
                        !.batch = new_emails, !.todo = new_emails,
                        !.fetched = "ok"]

\* one pass of the while body up to the for loop: a new session, then
\* check_for_new_emails; `ok` is whether the provider's listing returns (the
\* outer except clause sleeps otherwise)
Iterate(ok) ==
    IF ~ok THEN [NoLoop EXCEPT !.pc = "sleeping", !.fetched = "failed"]
    ELSE [NoLoop EXCEPT !.pc = IF new_emails = <<>> THEN "sleeping" ELSE "batch",
                        !.batch = new_emails, !.todo = new_emails,
                        !.fetched = "ok"]

\* the task enters run_loop: self.running = True, then the first iteration
LoopBegin(t, ok) ==
    /\ loop[t].pc = "scheduled"
    /\ ThreadFree
    /\ running' = TRUE
    /\ loop' = [loop EXCEPT ![t] = Iterate(ok)]
    /\ UNCHANGED <<response, stop_called, unread, seen_emails, triage, triage_log>>
    /\ UNCHANGED <<storeVars, gatewayVars>>

\* the sleep ends: `while self.running`, then the next iteration or the exit
LoopCheck(t, ok) ==
    /\ loop[t].pc = "sleeping"
    /\ ThreadFree
    /\ IF running
       THEN loop' = [loop EXCEPT ![t] = Iterate(ok)]
       ELSE /\ ok
            /\ loop' = [loop EXCEPT ![t] = [NoLoop EXCEPT !.pc = "done"]]
    /\ UNCHANGED <<response, running, stop_called, unread, seen_emails, triage, triage_log>>
    /\ UNCHANGED <<storeVars, gatewayVars>>

Remaining_StopAware(todo) == IF running THEN Tail(todo) ELSE <<>>

\* what the for loop still has to visit after the candidate at the head
Remaining(todo) == Tail(todo)

\* the for loop moves past candidate m; `usable` is whether the session of the
\* iteration can still commit
AfterCandidate(t, m, usable) ==
    [loop EXCEPT ![t].todo = Remaining(@),
                 ![t].done = Append(@, m),
                 ![t].session_ok = usable,
                 ![t].pc = IF Remaining(loop[t].todo) = <<>> THEN "sleeping"
                           ELSE "batch"]

\* how process_email(m) ends at the commit of the Email row: the Classifier (or
\* the provider's get_message) raised, the session was left rolled back by an
\* earlier failed commit of this iteration, the row's key already exists, or
\* the row is stored
StoreOutcome(t, m, label) ==
    IF label = "<raise>" THEN "error"
    ELSE IF ~loop[t].session_ok THEN "session_error"
    ELSE IF m \in DOMAIN emails THEN "db_error"
    ELSE "stored"

\* process_email for the candidate at the head, up to the commit of the Email
\* row; an exception is caught by the except clause of the for loop
LoopStore(t, label) ==
    /\ loop[t].pc = "batch"
    /\ triage.pc = "idle"
    /\ loop[t].todo # <<>>
    /\ LET m == Head(loop[t].todo)
           outcome == StoreOutcome(t, m, label)
       IN  IF outcome = "stored"
           THEN /\ emails' = (m :> [from_address |-> parse_message(unread[m]),
                                    classification |-> label,
                                    processed |-> FALSE]) @@ emails
                /\ triage' = [pc |-> "stored", email_id |-> m,
                              parsed_from |-> parse_message(unread[m]),
                              classification |-> label]
                /\ UNCHANGED <<triage_log, loop>>
           ELSE /\ triage_log' = (m :> LogEntry(outcome, parse_message(unread[m]),
                                                None, DecisionRaised)) @@ triage_log
                /\ loop' = AfterCandidate(t, m, loop[t].session_ok
                                                  /\ outcome # "db_error")
                /\ UNCHANGED <<emails, triage>>
    /\ UNCHANGED <<agent_config, actions, unread, seen_emails>>
    /\ UNCHANGED <<gatewayVars, response, running, stop_called>>

\* process_email for the same candidate from decide_action on
LoopDecide(t, responder) ==
    /\ loop[t].pc = "batch"
    /\ triage.pc = "stored"
    /\ SaveDecision(responder)
    /\ loop' = AfterCandidate(t, triage.email_id, loop[t].session_ok)
    /\ UNCHANGED <<running, stop_called>>

\* POST /api/agent/start, a coroutine of the event loop.  The start-up task has
\* entered run_loop before the first request is served.  The control endpoints
\* return a message only, which the model does not keep.
StartAgent ==
    /\ ThreadFree
    /\ loop[0].pc # "scheduled"
    /\ IF running
       THEN UNCHANGED loop
       ELSE /\ \E t \in Tasks : loop[t].pc = "absent"
            /\ LET t == CHOOSE u \in Tasks :
                          /\ loop[u].pc = "absent"
                          /\ \A v \in Tasks : loop[v].pc = "absent" => u <= v
               IN  loop' = [loop EXCEPT ![t].pc = "scheduled"]
    /\ stop_called' = FALSE
    /\ UNCHANGED <<response, running, unread, seen_emails, triage, triage_log>>
    /\ UNCHANGED <<storeVars, gatewayVars>>

\* POST /api/agent/stop, a function of the thread pool: it runs at any moment,
\* also while an iteration is in flight
StopAgent ==
    /\ IF ~running
       THEN UNCHANGED <<running, loop, stop_called>>
       ELSE /\ running' = FALSE
            /\ stop_called' = TRUE
            /\ loop' = [t \in Tasks |->
                          IF loop[t].pc = "batch"
                          THEN [loop[t] EXCEPT !.stop_in_flight = TRUE]
                          ELSE loop[t]]
    /\ UNCHANGED <<response, unread, seen_emails, triage, triage_log>>
    /\ UNCHANGED <<storeVars, gatewayVars>>

\* POST /api/emails/, a function of the thread pool: insert a row under the id
\* the caller gives; the insert of an existing key fails
create_email(m, sender) ==
    /\ IF m \in DOMAIN emails
       THEN UNCHANGED emails
       ELSE emails' = (m :> [from_address |-> sender, classification |-> None,
                             processed |-> FALSE]) @@ emails
    /\ UNCHANGED <<agent_config, actions, response>>
    /\ UNCHANGED <<triageVars, gatewayVars>>

\* the labels the Classifier gives in the runs of the loop
LoopLabels == {"routine", "<raise>"}

\* the ids under which a client posts a message record while the loop runs
PostedIds == {"m1"}

\* after start-up: the configuration whitelists the sender of the first
\* message, both messages are unread, and lifespan has created its task
LoopInit ==
    /\ agent_config =
         (1 :> [DefaultConfig EXCEPT !.auto_reply_whitelist = <<"a">>])
    /\ emails = <<>>
    /\ actions = <<>>
    /\ unread = ("m1" :> <<"a">>) @@ ("m2" :> <<"B">>)
    /\ seen_emails = {}
    /\ triage = IdleTriage
    /\ triage_log = <<>>
    /\ gmail_calls = <<>>
    /\ sent_emails = {}
    /\ session = [w \in Workers |-> IdleSession]
    /\ response = NoResponse
    /\ requests = 0
    /\ running = FALSE
    /\ loop = [t \in Tasks |-> IF t = 0 THEN [NoLoop EXCEPT !.pc = "scheduled"]
                               ELSE NoLoop]
    /\ stop_called = FALSE

LoopNext ==
    \/ \E t \in Tasks, ok \in BOOLEAN : LoopBegin(t, ok)
    \/ \E t \in Tasks, ok \in BOOLEAN : LoopCheck(t, ok)
    \/ \E t \in Tasks, label \in LoopLabels : LoopStore(t, label)
    \/ \E t \in Tasks, responder \in ResponderOutcomes : LoopDecide(t, responder)
    \/ StartAgent
    \/ StopAgent
    \/ \E m \in PostedIds : create_email(m, parse_message(unread[m]))

LoopSpec == LoopInit /\ [][LoopNext]_vars

\* the steps of the run_loop tasks
LoopStep ==
    \/ \E t \in Tasks, ok \in BOOLEAN : LoopBegin(t, ok)
    \/ \E t \in Tasks, ok \in BOOLEAN : LoopCheck(t, ok)
    \/ \E t \in Tasks, label \in LoopLabels : LoopStore(t, label)
    \/ \E t \in Tasks, responder \in ResponderOutcomes : LoopDecide(t, responder)

\* the steps of the run_loop tasks in which the call of the Mail Provider,
\* of the Classifier or of the Responder returns
LoopProgress ==
    \/ \E t \in Tasks : LoopBegin(t, TRUE)
    \/ \E t \in Tasks : LoopCheck(t, TRUE)
    \/ \E t \in Tasks : LoopStore(t, "routine")
    \/ \E t \in Tasks : LoopDecide(t, [raised |-> FALSE, text |-> "Thanks"])

\* after start-up, under a configuration row whose blacklist was emptied by
\* a PATCH: the whitelist holds the sender of the first message, both messages
\* are unread, and lifespan has created its task
LiveInit ==
    /\ agent_config =
         (1 :> [DefaultConfig EXCEPT !.auto_reply_whitelist = <<"a">>,
                                     !.auto_reply_blacklist = <<>>])
    /\ emails = <<>>
    /\ actions = <<>>
    /\ unread = ("m1" :> <<"a">>) @@ ("m2" :> <<"B">>)
    /\ seen_emails = {}
    /\ triage = IdleTriage
    /\ triage_log = <<>>
    /\ gmail_calls = <<>>
    /\ sent_emails = {}
    /\ session = [w \in Workers |-> IdleSession]
    /\ response = NoResponse
    /\ requests = 0
    /\ running = FALSE
    /\ loop = [t \in Tasks |-> IF t = 0 THEN [NoLoop EXCEPT !.pc = "scheduled"]
                               ELSE NoLoop]
    /\ stop_called = FALSE

\* the start-up task beside a client that stops the loop
LiveNext ==
    \/ LoopStep
    \/ StopAgent

\* the event loop runs a created task, ends its sleeps and runs the
\* synchronous body of an iteration to its end; the calls may fail, but do
\* not fail for ever
LiveSpec == LiveInit /\ [][LiveNext]_vars /\ WF_vars(LoopProgress)

\* --------------------------------------------------------------- the ledger
ActionIds == 1..Len(actions)

RECURSIVE Ascending(_)
Ascending(S) ==
    IF S = {} THEN <<>>
    ELSE LET least == CHOOSE x \in S : \A y \in S : x <= y
         IN  <<least>> \o Ascending(S \ {least})

Call(kind, id, row, body) ==
    [kind |-> kind, action_id |-> id, email_id |-> row.email_id, body |-> body]

\* the provider's record of a call: how many times it received that call
Record(calls, c) ==
    IF c \in DOMAIN calls THEN [calls EXCEPT ![c] = @ + 1] ELSE (c :> 1) @@ calls

\* the kinds of action whose execution calls the Mail Provider (the branches
\* `if action_type == "reply"` / `elif action_type == "archive"`)
CallsProvider_Always(action_type) == TRUE

CallsProvider(action_type) == action_type \in {"reply", "archive"}

Refused_Unnamed(code, id, status) ==
    [NoResponse EXCEPT !.kind = code, !.action_id = id]

\* the HTTPException of approve_action: the code, and the stored status the
\* detail names (None for the 404)
Refused(code, id, status) ==
    [NoResponse EXCEPT !.kind = code, !.action_id = id, !.status = status]

\* ------------------------------------------- approve_action (api/action.py)
\* the lookup and the guards, up to the first write to the loaded row
ApproveLoad(w, id, approved, edited) ==
    /\ session[w].pc = "idle"
    /\ requests < MaxRequests
    /\ requests' = requests + 1
    /\ IF id \notin ActionIds
       THEN /\ response' = Refused("http404", id, None)
            /\ UNCHANGED session
       ELSE IF actions[id].status # "pending"
       THEN /\ response' = Refused("http400", id, actions[id].status)
            /\ UNCHANGED session
       ELSE /\ session' = [session EXCEPT ![w] =
                 [IdleSession EXCEPT
                    !.pc = IF approved THEN "approve_exec" ELSE "reject_commit",
                    !.action_id = id,
                    !.edited_reply = IF approved THEN edited ELSE None]]
            /\ response' = NoResponse
    /\ UNCHANGED <<gmail_calls, sent_emails>>
    /\ UNCHANGED storeVars
    /\ UNCHANGED triageVars

RejectCommit_MarksProcessed(w) ==
    /\ session[w].pc = "reject_commit"
    /\ UNCHANGED requests
    /\ LET id == session[w].action_id
       IN  /\ actions' = [actions EXCEPT ![id].status = "rejected"]
           /\ emails' = [emails EXCEPT ![actions[id].email_id].processed = TRUE]
           /\ response' = [NoResponse EXCEPT !.kind = "ok", !.action_id = id,
                                    !.status = "rejected",
                                    !.actual_reply = actions[id].actual_reply]
    /\ session' = [session EXCEPT ![w] = IdleSession]
    /\ UNCHANGED <<agent_config, gmail_calls, sent_emails>>
    /\ UNCHANGED triageVars

\* not approved: status rejected, commit, refresh
RejectCommit(w) ==
    /\ session[w].pc = "reject_commit"
    /\ UNCHANGED requests
    /\ LET id == session[w].action_id
       IN  /\ actions' = [actions EXCEPT ![id].status = "rejected"]
           /\ response' = [NoResponse EXCEPT !.kind = "ok", !.action_id = id,
                                    !.status = "rejected",
                                    !.actual_reply = actions[id].actual_reply]
    /\ session' = [session EXCEPT ![w] = IdleSession]
    /\ UNCHANGED <<agent_config, emails, gmail_calls, sent_emails>>
    /\ UNCHANGED triageVars

\* the body approve_action hands to send_email
ApproveBody(row, edited) == row.suggested_reply

\* approved: the Mail Provider call for the kind of the action; `ok` is whether
\* the provider call returns (it raises otherwise, and the exception leaves the
\* handler: the session is closed without a commit)
ApproveExecute(w, ok) ==
    /\ session[w].pc = "approve_exec"
    /\ UNCHANGED requests
    /\ LET id == session[w].action_id
           row == actions[id]
           kind == IF row.action_type = "reply" THEN "send" ELSE "archive"
           body == IF row.action_type = "reply"
                   THEN ApproveBody(row, session[w].edited_reply) ELSE None
       IN  IF CallsProvider(row.action_type)
           THEN IF ok
                THEN /\ gmail_calls' = Record(gmail_calls, Call(kind, id, row, body))
                     /\ session' = [session EXCEPT ![w].pc = "approve_commit"]
                     /\ response' = NoResponse
                ELSE /\ response' = [NoResponse EXCEPT !.kind = "exception",
                                                        !.action_id = id,
                                                        !.failures = {id}]
                     /\ session' = [session EXCEPT ![w] = IdleSession]
                     /\ UNCHANGED gmail_calls
           ELSE /\ ok
                /\ session' = [session EXCEPT ![w].pc = "approve_commit"]
                /\ response' = NoResponse
                /\ UNCHANGED gmail_calls
    /\ UNCHANGED sent_emails
    /\ UNCHANGED storeVars
    /\ UNCHANGED triageVars

\* the actual content approve_action leaves on the row
ApproveActual(row, edited) ==
    IF row.action_type = "reply" THEN row.suggested_reply
    ELSE IF Truthy(edited) THEN edited
    ELSE row.actual_reply

ApproveSuggested_Overwrite(row, edited) ==
    IF Truthy(edited) THEN edited ELSE row.suggested_reply

\* the suggested content approve_action leaves on the row: the handler reads
\* action.suggested_reply and never assigns it
ApproveSuggested(row, edited) == row.suggested_reply

\* the writes after the provider call, the commit and the refresh
ApproveCommit(w) ==
    /\ session[w].pc = "approve_commit"
    /\ UNCHANGED requests
    /\ LET id == session[w].action_id
           row == actions[id]
           edited == session[w].edited_reply
           actual == ApproveActual(row, edited)
       IN  /\ actions' = [actions EXCEPT
                              ![id].status = "executed",
                              ![id].actual_reply = actual,
                              ![id].suggested_reply = ApproveSuggested(row, edited)]
           /\ emails' = [emails EXCEPT ![row.email_id].processed = TRUE]
           /\ sent_emails' =
                 IF row.action_type = "reply"
                 THEN sent_emails \cup
                        {[reply_to |-> row.email_id,
                          body |-> IF Truthy(edited) THEN edited
                                   ELSE row.suggested_reply]}
                 ELSE sent_emails
           /\ response' = [NoResponse EXCEPT
                    !.kind = "ok", !.action_id = id, !.status = "executed",
                    !.actual_reply = actual, !.edited_reply = edited,
                    !.body_sent = IF row.action_type = "reply"
                                  THEN ApproveBody(row, edited) ELSE None]
    /\ session' = [session EXCEPT ![w] = IdleSession]
    /\ UNCHANGED <<agent_config, gmail_calls>>
    /\ UNCHANGED triageVars

\* --------------------------------- execute_pending_actions (api/bulk.py)
TypeFilters == {None, "reply", "archive", "notify"}

\* the query: status approved, and the requested kind if one is given
SelectApproved(action_type) ==
    {i \in ActionIds :
        /\ actions[i].status = "approved"
        /\ (Truthy(action_type) => actions[i].action_type = action_type)}

\* the query and the early return when it selects nothing
ExecLoad(w, action_type) ==
    /\ session[w].pc = "idle"
    /\ requests < MaxRequests
    /\ requests' = requests + 1
    /\ LET selected == SelectApproved(action_type)
       IN  IF selected = {}
           THEN /\ response' = [NoResponse EXCEPT !.kind = "ok_bulk_none"]
                /\ UNCHANGED session
           ELSE /\ session' = [session EXCEPT ![w] =
                      [IdleSession EXCEPT !.pc = "exec_loop",
                                          !.selected = selected,
                                          !.todo = Ascending(selected)]]
                /\ response' = NoResponse
    /\ UNCHANGED <<gmail_calls, sent_emails>>
    /\ UNCHANGED storeVars
    /\ UNCHANGED triageVars

ExecRest_StopOnFailure(todo, ok) == IF ok THEN Tail(todo) ELSE <<>>

\* the actions the for loop still visits after the one at the head, whether
\* that one was executed (`ok`) or went through the except branch
ExecRest(todo, ok) == Tail(todo)

\* one iteration of the loop: the provider call for the kind of the action, the
\* writes to the loaded rows on success, the except branch on failure
ExecStep(w, ok) ==
    /\ session[w].pc = "exec_loop"
    /\ UNCHANGED requests
    /\ LET id == Head(session[w].todo)
           row == actions[id]
           rest == ExecRest(session[w].todo, ok)
           kind == IF row.action_type = "reply" THEN "send" ELSE "archive"
           body == IF row.action_type = "reply" THEN row.suggested_reply ELSE None
           after == IF rest = <<>> THEN "exec_commit" ELSE "exec_loop"
       IN  IF CallsProvider(row.action_type)
           THEN IF ok
                THEN /\ gmail_calls' = Record(gmail_calls, Call(kind, id, row, body))
                     /\ session' = [session EXCEPT
                           ![w].pc = after, ![w].todo = rest,
                           ![w].executed = @ \cup {id}]
                ELSE /\ session' = [session EXCEPT
                           ![w].pc = after, ![w].todo = rest,
                           ![w].failed = @ \cup {id}]
                     /\ UNCHANGED gmail_calls
           ELSE /\ ok
                /\ session' = [session EXCEPT
                      ![w].pc = after, ![w].todo = rest,
                      ![w].executed = @ \cup {id}]
                /\ UNCHANGED gmail_calls
    /\ response' = NoResponse
    /\ UNCHANGED sent_emails
    /\ UNCHANGED storeVars
    /\ UNCHANGED triageVars

\* the status the run writes to a row it loaded
ExecStatus(w, i) ==
    IF i \in session[w].executed THEN "executed"
    ELSE IF i \in session[w].failed THEN "failed"
    ELSE actions[i].status

\* the commit after the loop, and the result returned
ExecCommit(w) ==
    /\ session[w].pc = "exec_commit"
    /\ UNCHANGED requests
    /\ actions' =
          [i \in ActionIds |->
             [actions[i] EXCEPT
                !.status = ExecStatus(w, i),
                !.actual_reply =
                   IF i \in session[w].executed /\ actions[i].action_type = "reply"
                   THEN actions[i].suggested_reply ELSE @]]
    /\ emails' =
          [m \in DOMAIN emails |->
             [emails[m] EXCEPT
                !.processed =
                   IF \E i \in session[w].executed : actions[i].email_id = m
                   THEN TRUE ELSE @]]
    /\ response' = [NoResponse EXCEPT !.kind = "ok_bulk",
                             !.executed = session[w].executed,
                             !.failures = session[w].failed]
    /\ session' = [session EXCEPT ![w] = IdleSession]
    /\ UNCHANGED <<agent_config, gmail_calls, sent_emails>>
    /\ UNCHANGED triageVars

\* ---------------------------------------- specification of the ledger
MsgIds == {"m1", "m2"}

SeededIds == {1, 2}

SeededRows ==
    [email_id : MsgIds, action_type : {"reply", "archive", "notify"},
     suggested_reply : {"Thanks", None}, actual_reply : {None},
     reason : {Reason("seeded", None)}, status : {"pending", "approved"}]

\* rows as process_email writes them: a suggestion on a reply and only there
WellFormedRow(row) == (row.action_type = "reply") <=> (row.suggested_reply # None)

EditedReplies == {None, "", "Edited"}

\* The store at start-up: two messages and the seeded action rows, the first
\* one on the first message.  Rows are pending, as process_email and
\* create_action write them, or approved, the status execute_pending_actions
\* selects; the handlers under study only ever commit rejected, executed and
\* failed, so approved rows are part of the stored input.  The dry-run flag
\* of the configuration row is either value PUT /config can store.
Init ==
    /\ agent_config \in {(1 :> [DefaultConfig EXCEPT !.dry_run_mode = dry]) :
                            dry \in BOOLEAN}
    /\ emails = [m \in MsgIds |->
                   [from_address |-> <<"a">>, classification |-> "routine",
                    processed |-> FALSE]]
    /\ actions \in {rows \in [SeededIds -> SeededRows] :
                      /\ \A i \in SeededIds : WellFormedRow(rows[i])
                      /\ rows[1].email_id = "m1"}
    /\ unread = <<>>
    /\ seen_emails = {}
    /\ triage = IdleTriage
    /\ triage_log = <<>>
    /\ gmail_calls = <<>>
    /\ sent_emails = {}
    /\ session = [w \in Workers |-> IdleSession]
    /\ response = NoResponse
    /\ requests = 0
    /\ running = FALSE
    /\ loop = [t \in Tasks |-> NoLoop]
    /\ stop_called = FALSE

Next ==
    \/ \E w \in Workers, id \in 1..(Len(actions) + 1), approved \in BOOLEAN :
          \E edited \in (IF approved THEN EditedReplies ELSE {None}) :
             ApproveLoad(w, id, approved, edited)
    \/ \E w \in Workers : RejectCommit(w)
    \/ \E w \in Workers, ok \in BOOLEAN : ApproveExecute(w, ok)
    \/ \E w \in Workers : ApproveCommit(w)
    \/ \E w \in Workers, action_type \in TypeFilters : ExecLoad(w, action_type)
    \/ \E w \in Workers, ok \in BOOLEAN : ExecStep(w, ok)
    \/ \E w \in Workers : ExecCommit(w)

Spec == Init /\ [][Next]_vars

\* ----------------------------------- bulk_archive_sender (api/bulk.py)
\* the stored messages of a sender, in the order of the Inbox
EmailsFrom(sender) ==
    SelectSeq(Inbox, LAMBDA m : m \in DOMAIN emails /\ emails[m].from_address = sender)

\* the action row bulk_archive_sender adds for message m
ArchiveRow(m, sender, status) ==
    [email_id |-> m, action_type |-> "archive", suggested_reply |-> None,
     actual_reply |-> None, reason |-> Reason("Bulk archived sender", sender),
     status |-> status]

RECURSIVE RecordAll(_, _)
RecordAll(calls, ms) ==
    IF ms = <<>> THEN calls
    ELSE RecordAll(Record(calls, [kind |-> "archive", action_id |-> 0,
                                  email_id |-> Head(ms), body |-> None]),
                   Tail(ms))

\* the whole handler; `failing` are the messages for which the provider's
\* archive call raises.  Of the result the model keeps which branch returned.
bulk_archive_sender(sender, execute_in_gmail, failing) ==
    /\ requests < MaxRequests
    /\ requests' = requests + 1
    /\ LET found == EmailsFrom(sender)
           archived == SelectSeq(found, LAMBDA m : m \notin failing)
           marked == IF execute_in_gmail THEN archived ELSE found
           status == IF execute_in_gmail THEN "executed" ELSE "pending"
       IN  IF found = <<>>
           THEN /\ response' = [NoResponse EXCEPT !.kind = "ok_archive_none"]
                /\ UNCHANGED <<emails, actions, gmail_calls>>
           ELSE /\ gmail_calls' = IF execute_in_gmail
                                  THEN RecordAll(gmail_calls, archived)
                                  ELSE gmail_calls
                /\ emails' = [m \in DOMAIN emails |->
                                IF \E k \in 1..Len(marked) : marked[k] = m
                                THEN [emails[m] EXCEPT !.processed = TRUE]
                                ELSE emails[m]]
                /\ actions' = actions \o
                                [k \in 1..Len(marked) |->
                                   ArchiveRow(marked[k], sender, status)]
                /\ response' = [NoResponse EXCEPT !.kind = "ok_archive"]
    /\ UNCHANGED <<agent_config, sent_emails, session>>
    /\ UNCHANGED triageVars

\* two stored messages of one sender, no action yet
ArchiveInit ==
    /\ agent_config = (1 :> DefaultConfig)
    /\ emails = [m \in {"m1", "m2"} |->
                   [from_address |-> <<"a">>, classification |-> "routine",
                    processed |-> FALSE]]
    /\ actions = <<>>
    /\ unread = <<>>
    /\ seen_emails = {}
    /\ triage = IdleTriage
    /\ triage_log = <<>>
    /\ gmail_calls = <<>>
    /\ sent_emails = {}
    /\ session = [w \in Workers |-> IdleSession]
    /\ response = NoResponse
    /\ requests = 0
    /\ running = FALSE
    /\ loop = [t \in Tasks |-> NoLoop]
    /\ stop_called = FALSE

ArchiveNext ==
    \/ \E sender \in {<<"a">>, <<"b">>}, execute_in_gmail \in BOOLEAN :
          \E failing \in (IF execute_in_gmail THEN SUBSET {"m1", "m2"} ELSE {{}}) :
             bulk_archive_sender(sender, execute_in_gmail, failing)
    \/ \E w \in Workers, id \in 1..(Len(actions) + 1), approved \in BOOLEAN :
          ApproveLoad(w, id, approved, None)
    \/ \E w \in Workers : RejectCommit(w)
    \/ \E w \in Workers, ok \in BOOLEAN : ApproveExecute(w, ok)
    \/ \E w \in Workers : ApproveCommit(w)

ArchiveSpec == ArchiveInit /\ [][ArchiveNext]_vars

\* ===================================================== Decision Policy claims
\* the configuration decide_action reads, and the claim's own reading of
\* "matches a list": some parsed entry occurs in the lower-cased sender
PolicyConfig == get_config(agent_config)[1]

OnList(sender, entries) ==
    \E i \in 1..Len(entries) : Contains(Lower(sender), entries[i])

OnBlacklist(sender) == OnList(sender, get_blacklist(PolicyConfig))

OnWhitelist(sender) == OnList(sender, get_whitelist(PolicyConfig))

\* the messages for which decide_action was called
Decided == {m \in DOMAIN triage_log : triage_log[m].classification # None}

\* C4: a sender that contains a blacklist entry gets kind notify, for every
\* label and whether or not it is whitelisted, and the Responder is not called.
C4_BlacklistNotifies ==
    \A m \in Decided :
       OnBlacklist(triage_log[m].sender) =>
          /\ ~triage_log[m].decision.raised
          /\ triage_log[m].decision.type = "notify"
          /\ ~triage_log[m].decision.responder_called

\* C4 witness: a sender on both lists, labelled spam, was decided
C4_Witness ==
    \E m \in Decided :
       /\ OnBlacklist(triage_log[m].sender)
       /\ OnWhitelist(triage_log[m].sender)
       /\ triage_log[m].classification = "spam"
       /\ triage_log[m].decision.type = "notify"
       /\ \E i \in 1..Len(get_blacklist(PolicyConfig)) :
             /\ Contains(triage_log[m].sender, get_blacklist(PolicyConfig)[i])
             /\ Len(get_blacklist(PolicyConfig)[i]) < Len(triage_log[m].sender)

\* C5: a whitelisted, non-blacklisted sender labelled routine, spam or personal
\* gets kind reply with non-empty suggested content, and no reply action with
\* empty or absent suggested content is persisted.
C5_ReplyHasContent ==
    /\ \A m \in Decided :
          ( /\ OnWhitelist(triage_log[m].sender)
            /\ ~OnBlacklist(triage_log[m].sender)
            /\ triage_log[m].classification \in {"routine", "spam", "personal"}
            /\ ~triage_log[m].decision.raised )
          => /\ triage_log[m].decision.type = "reply"
             /\ Truthy(triage_log[m].decision.message)
    /\ \A i \in ActionIds :
          actions[i].action_type = "reply" => Truthy(actions[i].suggested_reply)

\* C6: a whitelisted, non-blacklisted sender labelled urgent gets kind notify.
C6_WhitelistedUrgentNotifies ==
    \A m \in Decided :
       ( /\ OnWhitelist(triage_log[m].sender)
         /\ ~OnBlacklist(triage_log[m].sender)
         /\ triage_log[m].classification = "urgent" )
       => /\ ~triage_log[m].decision.raised
          /\ triage_log[m].decision.type = "notify"

\* C6 witness: an urgent message of a whitelisted sender was decided and saved
C6_Witness ==
    \E m \in Decided :
       /\ OnWhitelist(triage_log[m].sender)
       /\ ~OnBlacklist(triage_log[m].sender)
       /\ triage_log[m].classification = "urgent"
       /\ triage_log[m].outcome = "saved"

\* the kind the fallback mapping gives a label
KindOfLabel(label) == IF label = "spam" THEN "archive" ELSE "notify"

\* C7: a sender on neither list gets urgent->notify, routine->notify,
\* spam->archive, personal->notify, and any other label notify with a reason
\* that names the label.
C7_ClassificationMapping ==
    \A m \in Decided :
       ( /\ ~OnWhitelist(triage_log[m].sender)
         /\ ~OnBlacklist(triage_log[m].sender) )
       => /\ ~triage_log[m].decision.raised
          /\ triage_log[m].decision.type = KindOfLabel(triage_log[m].classification)
          /\ triage_log[m].classification
                \notin {"urgent", "routine", "spam", "personal"}
             => /\ triage_log[m].decision.reason.tag = "Unknown classification"
                /\ triage_log[m].decision.reason.arg = triage_log[m].classification

\* C7 witness: a spam message of an unlisted sender was decided while the
\* lists are not empty
C7_Witness ==
    \E m \in Decided :
       /\ ~OnWhitelist(triage_log[m].sender)
       /\ ~OnBlacklist(triage_log[m].sender)
       /\ get_whitelist(PolicyConfig) # <<>>
       /\ get_blacklist(PolicyConfig) # <<>>
       /\ triage_log[m].classification = "spam"
       /\ triage_log[m].decision.type = "archive"

\* C8: when the Responder fails, decide_action still returns (a notify action
\* whose reason notes the failure) and the message gets its pending action in
\* the same pass: every message decide_action was called for has a decision
\* and a pending action.
C8_ResponderFailureDegrades ==
    \A m \in Decided :
       /\ ~triage_log[m].decision.raised
       /\ triage_log[m].outcome = "saved"
       /\ \E i \in ActionIds :
             actions[i].email_id = m /\ actions[i].status = "pending"

\* the kinds of action the Decision Policy may return
ActionKinds == {"reply", "archive", "notify", "skip"}

\* C31: with a Responder that returns, decide_action returns for the message
\* at hand an action of one of the four kinds with a reason, whatever the
\* sender, the label and the stored lists; and every decision that was logged
\* without an exception has such a kind and a reason.
C31_PolicyTotal ==
    /\ triage.pc = "stored" =>
          \A responder \in ResponderOutcomes :
             ~responder.raised =>
                LET d == decide_action(triage.parsed_from, triage.classification,
                                       PolicyConfig, responder)
                IN  /\ ~d.raised
                    /\ d.type \in ActionKinds
                    /\ d.reason.tag # None
    /\ \A m \in Decided :
          /\ triage_log[m].decision.raised => triage_log[m].decision.responder_called
          /\ ~triage_log[m].decision.raised =>
                /\ triage_log[m].decision.type \in ActionKinds
                /\ triage_log[m].decision.reason.tag # None

\* C31 witness: a label outside the four known ones, from a sender on neither
\* list, was decided and saved as a notify action
C31_Witness ==
    \E m \in Decided :
       /\ triage_log[m].classification = "promo"
       /\ ~OnWhitelist(triage_log[m].sender)
       /\ ~OnBlacklist(triage_log[m].sender)
       /\ triage_log[m].outcome = "saved"
       /\ triage_log[m].decision.type = "notify"

\* the reasons that say the email is urgent
UrgentReasons ==
    {"Urgent email requiring immediate attention",
     "Urgent email from whitelisted sender"}

\* C39: a reason that says urgent is given only to the label urgent, and a
\* label outside the four known ones from a whitelisted, non-blacklisted
\* sender is reported as an unknown classification that names the label.
C39_ReasonMatchesLabel ==
    \A m \in Decided :
       ~triage_log[m].decision.raised =>
          /\ triage_log[m].decision.reason.tag \in UrgentReasons
                => triage_log[m].classification = "urgent"
          /\ ( /\ OnWhitelist(triage_log[m].sender)
               /\ ~OnBlacklist(triage_log[m].sender)
               /\ triage_log[m].classification
                     \notin {"urgent", "routine", "spam", "personal"} )
                => /\ triage_log[m].decision.reason.tag = "Unknown classification"
                   /\ triage_log[m].decision.reason.arg = triage_log[m].classification

\* the reasons of the branch for whitelisted senders
WhitelistReasons ==
    {"Whitelisted sender - auto-reply", "Urgent email from whitelisted sender"}

\* the stored text has a segment that is empty or blank
HasBlankSegment(text) ==
    \E i \in 1..Len(Split(text)) : Strip(Split(text)[i]) = <<>>

\* C36: the parsed lists hold no empty entry, whatever the stored text; a
\* decision of the whitelist or of the blacklist branch is due to a non-empty
\* entry the sender contains; and under an empty parsed whitelist no decision
\* is one of the whitelist branch, so the Responder is not called.
C36_NoEmptyEntry ==
    LET wl == get_whitelist(PolicyConfig)
        bl == get_blacklist(PolicyConfig)
    IN  /\ \A i \in 1..Len(wl) : wl[i] # <<>>
        /\ \A i \in 1..Len(bl) : bl[i] # <<>>
        /\ \A m \in Decided :
              /\ triage_log[m].decision.reason.tag \in WhitelistReasons
                    => \E i \in 1..Len(wl) :
                          /\ wl[i] # <<>>
                          /\ Contains(Lower(triage_log[m].sender), wl[i])
              /\ triage_log[m].decision.reason.tag = "Blacklisted sender"
                    => \E i \in 1..Len(bl) :
                          /\ bl[i] # <<>>
                          /\ Contains(Lower(triage_log[m].sender), bl[i])
              /\ wl = <<>> => ~triage_log[m].decision.responder_called

\* C36 witness: both stored texts are not empty and have a blank segment, and
\* a message was decided by its label, as one of a sender on neither list
C36_Witness ==
    \E m \in Decided :
       /\ PolicyConfig.auto_reply_whitelist # <<>>
       /\ PolicyConfig.auto_reply_blacklist # <<>>
       /\ HasBlankSegment(PolicyConfig.auto_reply_whitelist)
       /\ HasBlankSegment(PolicyConfig.auto_reply_blacklist)
       /\ triage_log[m].outcome = "saved"
       /\ triage_log[m].classification = "spam"
       /\ triage_log[m].decision.type = "archive"

\* ======================================================= Action Ledger claims
AllowedTransitions ==
    {<<"pending", "approved">>, <<"pending", "rejected">>,
     <<"approved", "executed">>, <<"approved", "failed">>}

\* C1: the only status changes of a stored action are pending->approved,
\* pending->rejected, approved->executed and approved->failed, and an approve
\* or reject request on an action that is not pending is refused and changes
\* no action.
C1_OnlyLedgerTransitions ==
    [][ /\ \A i \in ActionIds :
              actions'[i].status # actions[i].status
                 => <<actions[i].status, actions'[i].status>> \in AllowedTransitions
        /\ \A w \in Workers, id \in ActionIds, approved \in BOOLEAN,
              edited \in EditedReplies :
              (ApproveLoad(w, id, approved, edited) /\ actions[id].status # "pending")
                 => (response'.kind = "http400" /\ actions' = actions)
      ]_vars

RECURSIVE TotalCalls(_, _)
TotalCalls(calls, S) ==
    IF S = {} THEN 0
    ELSE LET c == CHOOSE x \in S : TRUE
         IN  calls[c] + TotalCalls(calls, S \ {c})

\* the send and archive calls the Mail Provider received for action i
SideEffects(i) ==
    TotalCalls(gmail_calls, {c \in DOMAIN gmail_calls : c.action_id = i})

\* C2: whatever the interleaving of approve requests and execute-pending runs,
\* the side effect of an action (its send or its archive) happens at most once.
C2_SideEffectAtMostOnce == \A i \in ActionIds : SideEffects(i) <= 1

\* C3: no lost update: once the stored status of an action is rejected,
\* executed or failed, no caller that read an earlier status overwrites it.
C3_TerminalNeverOverwritten ==
    [][ \A i \in ActionIds :
           actions[i].status \in {"rejected", "executed", "failed"}
              => actions'[i].status = actions[i].status ]_vars

\* C9: when the Mail Provider call fails for an action, the request returns a
\* result (no exception escapes), the action is stored as failed, and the
\* processed flag of its message is as before (unless the same run executed
\* another action of that message).
C9_ProviderFailureRecorded ==
    [][ \A i \in response'.failures :
           /\ response'.kind # "exception"
           /\ actions'[i].status = "failed"
           /\ \/ emails'[actions[i].email_id].processed
                    = emails[actions[i].email_id].processed
              \/ \E j \in response'.executed :
                    actions[j].email_id = actions[i].email_id ]_vars

\* C10: when the approval of a reply action returns, the body that was sent
\* and the actual content recorded are the edited content if one was supplied
\* and the suggested content otherwise.
C10_EditedContentUsed ==
    ( /\ response.kind = "ok"
      /\ response.status = "executed"
      /\ actions[response.action_id].action_type = "reply" )
    => LET wanted == IF Truthy(response.edited_reply) THEN response.edited_reply
                     ELSE actions[response.action_id].suggested_reply
       IN  /\ response.body_sent = wanted
           /\ response.actual_reply = wanted

\* C11: while the dry-run flag of the configuration is true, no send and no
\* archive call reaches the Mail Provider, whichever path executes, and a reply
\* action that was executed carries its actual content.
C11_DryRunNoProviderCall ==
    agent_config[1].dry_run_mode =>
       /\ DOMAIN gmail_calls = {}
       /\ \A i \in ActionIds :
             (actions[i].status = "executed" /\ actions[i].action_type = "reply")
                => Truthy(actions[i].actual_reply)

\* the steps of approve_action and of execute_pending_actions
ApproveStep(w) ==
    /\ session[w].pc \in {"approve_exec", "approve_commit", "reject_commit"}
    /\ session'[w] # session[w]

GatewayStep(w) ==
    /\ session[w].pc \in {"exec_loop", "exec_commit"}
    /\ session'[w] # session[w]

\* the Mail Provider received no further call for action i in this step
NoNewCall(i) ==
    \A c \in DOMAIN gmail_calls' :
       c.action_id = i => (c \in DOMAIN gmail_calls /\ gmail_calls'[c] = gmail_calls[c])

\* C13: approving a pending action stores it as approved, calls no Mail
\* Provider and leaves the processed flags alone; an action becomes executed
\* or failed only from the stored status approved.
C13_ApproveThenExecute ==
    [][ /\ \A w \in Workers :
              ApproveStep(w) =>
                 /\ gmail_calls' = gmail_calls
                 /\ emails' = emails
                 /\ response'.kind = "ok"
                       => response'.status \in {"approved", "rejected"}
        /\ \A i \in ActionIds :
              ( /\ actions'[i].status \in {"executed", "failed"}
                /\ actions'[i].status # actions[i].status )
                 => actions[i].status = "approved"
      ]_vars

\* C14: executing a notify action makes no send and no archive call, stores
\* the action as executed and marks its message processed, on the bulk path
\* and on the approval path.
C14_NotifyExecutesSilently ==
    [][ \A w \in Workers :
           LET done == IF session[w].pc = "exec_commit" THEN session[w].executed
                       ELSE IF session[w].pc = "approve_commit"
                       THEN {session[w].action_id}
                       ELSE {}
           IN  (session'[w].pc = "idle") =>
                  \A i \in done :
                     actions[i].action_type = "notify" =>
                        /\ actions'[i].status = "executed"
                        /\ emails'[actions[i].email_id].processed
                        /\ \A c \in DOMAIN gmail_calls' : c.action_id # i
      ]_vars

\* C14 witness: a bulk run returned having executed an approved notify action
C14_Witness ==
    /\ response.kind = "ok_bulk"
    /\ \E i \in response.executed :
          /\ actions[i].action_type = "notify"
          /\ actions[i].status = "executed"
          /\ emails[actions[i].email_id].processed
          /\ \A c \in DOMAIN gmail_calls : c.action_id # i

C27_RefusalChangesNothing ==
    [][ \A w \in Workers, id \in ActionIds, approved \in BOOLEAN,
           edited \in EditedReplies :
           (ApproveLoad(w, id, approved, edited) /\ actions[id].status # "pending")
              => /\ response'.kind = "http400"
                 /\ response'.status = actions[id].status
                 /\ actions' = actions
                 /\ emails' = emails
                 /\ gmail_calls' = gmail_calls
                 /\ sent_emails' = sent_emails
                 /\ session' = session
      ]_vars

\* C27 witness: a request on a rejected action was refused with its status
C27_Witness ==
    /\ response.kind = "http400"
    /\ response.status = "rejected"
    /\ actions[response.action_id].status = "rejected"

\* C29: when a bulk run returns, every action it selected is in its executed
\* set or in its failure list, not in both, and is stored as executed or as
\* failed accordingly; the two counts add up to the number selected.
C29_BulkPartialSuccess ==
    [][ \A w \in Workers :
           (session[w].pc = "exec_commit" /\ session'[w].pc = "idle") =>
              /\ response'.kind = "ok_bulk"
              /\ response'.executed \cup response'.failures = session[w].selected
              /\ response'.executed \cap response'.failures = {}
              /\ Cardinality(response'.executed) + Cardinality(response'.failures)
                    = Cardinality(session[w].selected)
              /\ \A i \in response'.executed : actions'[i].status = "executed"
              /\ \A i \in response'.failures : actions'[i].status = "failed"
      ]_vars

\* C29 witness: a run returned with a failure followed by a success
C29_Witness ==
    /\ response.kind = "ok_bulk"
    /\ \E i \in response.failures, j \in response.executed :
          i < j /\ actions[i].status = "failed" /\ actions[j].status = "executed"

\* ------------------------------------------ bulk_delete_emails (api/bulk.py)
\* the rows of the table that are left, in their order
RowsKept(ids) == SelectSeq(actions, LAMBDA a : a.email_id \notin ids)

\* the handler for a request with delete_from_gmail false (the else branch):
\* the Action rows and the Email rows of the ids are deleted, then the commit.
\* It is a function of the thread pool.
bulk_delete_emails(ids) ==
    /\ requests < MaxRequests
    /\ requests' = requests + 1
    /\ actions' = RowsKept(ids)
    /\ emails' = [m \in DOMAIN emails \ ids |-> emails[m]]
    /\ UNCHANGED <<agent_config, unread, seen_emails, triage, triage_log, loopVars>>
    /\ UNCHANGED <<gmail_calls, sent_emails, session, response>>

\* process_email at the commit of the Action row when the Email row it refers
\* to was deleted after its commit and the database enforces the foreign key
\* (LoopDecide is the same step where it does not): the commit raises, the
\* except clause of the for loop catches it, the session stays rolled back
LoopDecideOrphan(t) ==
    /\ loop[t].pc = "batch"
    /\ triage.pc = "stored"
    /\ triage.email_id \notin DOMAIN emails
    /\ triage_log' = (triage.email_id :>
                         LogEntry("db_error", triage.parsed_from,
                                  triage.classification, DecisionRaised))
                     @@ triage_log
    /\ triage' = IdleTriage
    /\ loop' = AfterCandidate(t, triage.email_id, FALSE)
    /\ UNCHANGED <<storeVars, unread, seen_emails, running, stop_called>>
    /\ UNCHANGED <<gatewayVars, response>>

\* the ids a client asks to delete
DeleteRequests == SUBSET MsgIds \ {{}}

\* the triage loop of start-up, with a client that deletes messages
DeleteNext ==
    \/ \E t \in Tasks, ok \in BOOLEAN : LoopBegin(t, ok)
    \/ \E t \in Tasks, ok \in BOOLEAN : LoopCheck(t, ok)
    \/ \E t \in Tasks, label \in LoopLabels : LoopStore(t, label)
    \/ \E t \in Tasks, responder \in ResponderOutcomes : LoopDecide(t, responder)
    \/ \E t \in Tasks : LoopDecideOrphan(t)
    \/ \E ids \in DeleteRequests : bulk_delete_emails(ids)

DeleteSpec == LoopInit /\ [][DeleteNext]_vars

\* ------------------------ check_for_new_emails with settings.demo_mode on
\* `for e in self.seen_emails: ... e.id`: the elements of the seen set are ids
\* (str), so the body raises AttributeError as soon as the set has an element
DemoLoopRaises(seen) == seen # {}

\* `if not has_action: new.append(e.id)` after the for loop: has_action is
\* still False when the loop did not run, and `e` was never bound
DemoAppendRaises(seen) == seen = {}

\* the result of the demo branch: what it raises, or the list it returns
check_for_new_emails_demo(seen) ==
    IF DemoLoopRaises(seen) THEN [raised |-> "AttributeError", new |-> <<>>]
    ELSE IF DemoAppendRaises(seen) THEN [raised |-> "UnboundLocalError", new |-> <<>>]
    ELSE [raised |-> None, new |-> <<>>]

\* one pass of the while body up to the for loop in demo mode; the outer
\* except clause catches what check_for_new_emails raises and sleeps
DemoIterate ==
    LET result == check_for_new_emails_demo(seen_emails)
    IN  IF result.raised # None
        THEN [NoLoop EXCEPT !.pc = "sleeping", !.fetched = "failed"]
        ELSE [NoLoop EXCEPT !.pc = IF result.new = <<>> THEN "sleeping" ELSE "batch",
                            !.batch = result.new, !.todo = result.new,
                            !.fetched = "ok"]

DemoBegin(t) ==
    /\ loop[t].pc = "scheduled"
    /\ ThreadFree
    /\ running' = TRUE
    /\ loop' = [loop EXCEPT ![t] = DemoIterate]
    /\ UNCHANGED <<response, stop_called, unread, seen_emails, triage, triage_log>>
    /\ UNCHANGED <<storeVars, gatewayVars>>

DemoCheck(t) ==
    /\ loop[t].pc = "sleeping"
    /\ ThreadFree
    /\ loop' = [loop EXCEPT ![t] = IF running THEN DemoIterate
                                   ELSE [NoLoop EXCEPT !.pc = "done"]]
    /\ UNCHANGED <<response, running, stop_called, unread, seen_emails, triage, triage_log>>
    /\ UNCHANGED <<storeVars, gatewayVars>>

\* the stored messages and the seen set the demo branch is applied to
DemoStores ==
    {e \in [MsgIds -> {"absent", "unprocessed", "processed"}] : TRUE}

DemoEmails(e) ==
    [m \in {x \in MsgIds : e[x] # "absent"} |->
        [from_address |-> <<"a">>, classification |-> None,
         processed |-> (e[m] = "processed")]]

DemoInit ==
    /\ agent_config = (1 :> DefaultConfig)
    /\ \E e \in DemoStores :
          /\ emails = DemoEmails(e)
          /\ \E withAction \in SUBSET DOMAIN DemoEmails(e) :
                LET ms == SelectSeq(Inbox, LAMBDA m : m \in withAction)
                IN  actions = [i \in DOMAIN ms |->
                                  ArchiveRow(ms[i], <<"a">>, "pending")]
    /\ seen_emails \in SUBSET MsgIds
    /\ unread = <<>>
    /\ triage = IdleTriage
    /\ triage_log = <<>>
    /\ gmail_calls = <<>>
    /\ sent_emails = {}
    /\ session = [w \in Workers |-> IdleSession]
    /\ response = NoResponse
    /\ requests = 0
    /\ running = FALSE
    /\ loop = [t \in Tasks |-> IF t = 0 THEN [NoLoop EXCEPT !.pc = "scheduled"]
                               ELSE NoLoop]
    /\ stop_called = FALSE

DemoNext ==
    \/ \E t \in Tasks : DemoBegin(t)
    \/ \E t \in Tasks : DemoCheck(t)
    \/ StopAgent

DemoSpec == DemoInit /\ [][DemoNext]_vars

\* ------------------------------------------- the configuration endpoints
\* (api/config.py) beside the loop
\* the primary key of the row AgentConfig() inserts
NewConfigId_Auto(table) == Cardinality(DOMAIN table) + 1

\* (Column(Integer, primary_key=True, default=1))
NewConfigId(table) == 1

\* the check_interval a PATCH sets; <<>> when the request leaves it unset
PatchedInterval == 30

\* the values a client sends for check_interval: the schema takes any int
PatchedIntervals == {PatchedInterval, 0, -1}

ConfigUpdates == {<<>>} \cup {<<i>> : i \in PatchedIntervals}

\* get_or_create_config up to the query, for GET (patch false) and for PATCH.
\* A GET that finds the row returns it.
ConfigQuery(w, patch, update) ==
    /\ session[w].pc = "idle"
    /\ requests < MaxRequests
    /\ requests' = requests + 1
    /\ patch \/ update = <<>>
    /\ IF 1 \in DOMAIN agent_config
       THEN IF patch
            THEN /\ session' = [session EXCEPT
                                   ![w] = [IdleSession EXCEPT !.pc = "patch_update",
                                                              !.update = update]]
                 /\ UNCHANGED response
            ELSE /\ response' = [NoResponse EXCEPT !.kind = "ok_config"]
                 /\ UNCHANGED session
       ELSE /\ session' = [session EXCEPT
                              ![w] = [IdleSession EXCEPT
                                         !.pc = IF patch THEN "patch_insert"
                                                ELSE "get_insert",
                                         !.update = update]]
            /\ UNCHANGED response
    /\ UNCHANGED <<agent_config, emails, actions, gmail_calls, sent_emails>>
    /\ UNCHANGED triageVars

\* `if not config`: AgentConfig(), add, commit.  The insert of an existing key
\* fails, and the request ends with the exception.
ConfigInsert(w) ==
    /\ session[w].pc \in {"get_insert", "patch_insert"}
    /\ LET id == NewConfigId(agent_config)
       IN  IF id \in DOMAIN agent_config
           THEN /\ response' = [NoResponse EXCEPT !.kind = "http500"]
                /\ session' = [session EXCEPT ![w] = IdleSession]
                /\ UNCHANGED agent_config
           ELSE /\ agent_config' = (id :> DefaultConfig) @@ agent_config
                /\ IF session[w].pc = "get_insert"
                   THEN /\ response' = [NoResponse EXCEPT !.kind = "ok_config"]
                        /\ session' = [session EXCEPT ![w] = IdleSession]
                   ELSE /\ session' = [session EXCEPT ![w].pc = "patch_update"]
                        /\ UNCHANGED response
    /\ UNCHANGED <<emails, actions, gmail_calls, sent_emails, requests>>
    /\ UNCHANGED triageVars

\* update_config after get_or_create_config: setattr for the fields the
\* request sets, then the commit
ConfigUpdate(w) ==
    /\ session[w].pc = "patch_update"
    /\ agent_config' =
         IF session[w].update = <<>> THEN agent_config
         ELSE [agent_config EXCEPT ![1].check_interval = session[w].update[1]]
    /\ response' = [NoResponse EXCEPT !.kind = "ok_config"]
    /\ session' = [session EXCEPT ![w] = IdleSession]
    /\ UNCHANGED <<emails, actions, gmail_calls, sent_emails, requests>>
    /\ UNCHANGED triageVars

\* a new database, nothing to triage, and the task lifespan has created
ConfigInit ==
    /\ agent_config = <<>>
    /\ emails = <<>>
    /\ actions = <<>>
    /\ unread = <<>>
    /\ seen_emails = {}
    /\ triage = IdleTriage
    /\ triage_log = <<>>
    /\ gmail_calls = <<>>
    /\ sent_emails = {}
    /\ session = [w \in Workers |-> IdleSession]
    /\ response = NoResponse
    /\ requests = 0
    /\ running = FALSE
    /\ loop = [t \in Tasks |-> IF t = 0 THEN [NoLoop EXCEPT !.pc = "scheduled"]
                               ELSE NoLoop]
    /\ stop_called = FALSE

ConfigNext ==
    \/ \E w \in Workers, patch \in BOOLEAN, update \in ConfigUpdates :
          ConfigQuery(w, patch, update)
    \/ \E w \in Workers : ConfigInsert(w)
    \/ \E w \in Workers : ConfigUpdate(w)
    \/ \E t \in Tasks, ok \in BOOLEAN : LoopBegin(t, ok)
    \/ \E t \in Tasks, ok \in BOOLEAN : LoopCheck(t, ok)

ConfigSpec == ConfigInit /\ [][ConfigNext]_vars

\* C35: no step changes the suggested content of a stored action.
C35_SuggestionPreserved ==
    [][ \A i \in ActionIds :
           i \in 1..Len(actions') =>
              actions'[i].suggested_reply = actions[i].suggested_reply ]_vars

\* C35 witness: a reply action was approved with edited content and is stored
\* as executed with its suggestion
C35_Witness ==
    /\ response.kind = "ok"
    /\ response.status = "executed"
    /\ response.edited_reply = "Edited"
    /\ actions[response.action_id].action_type = "reply"
    /\ actions[response.action_id].suggested_reply = "Thanks"

\* C37: the commit of a rejection writes the status of that action and
\* nothing else: the other fields of the action, the other actions, the
\* messages, the provider's record and the sent mail stay as they were.
C37_RejectWritesStatusOnly ==
    [][ \A w \in Workers :
           (session[w].pc = "reject_commit" /\ session'[w].pc = "idle") =>
              LET id == session[w].action_id
              IN  /\ actions' = [actions EXCEPT ![id].status = "rejected"]
                  /\ emails' = emails
                  /\ gmail_calls' = gmail_calls
                  /\ sent_emails' = sent_emails
                  /\ response'.status = "rejected" ]_vars

\* C37 witness: a rejection was answered, the action is stored as rejected,
\* its message is not processed and the provider was never called
C37_Witness ==
    /\ response.kind = "ok"
    /\ response.status = "rejected"
    /\ actions[response.action_id].status = "rejected"
    /\ ~emails[actions[response.action_id].email_id].processed
    /\ gmail_calls = <<>>

\* C34: an action whose actual content is set has status executed.
C34_ActualOnlyWhenExecuted ==
    \A i \in ActionIds :
       actions[i].actual_reply # None => actions[i].status = "executed"

\* ========================================================= Triage Loop claims
\* the pending or approved actions the triage loop created for message m
Outstanding(m) ==
    {i \in ActionIds :
        /\ actions[i].email_id = m
        /\ actions[i].status \in {"pending", "approved"}
        /\ actions[i].reason.tag \notin {"Bulk archived sender", "seeded"}}

\* task t calls process_email for the candidate at the head of its list
CallsProcessEmail(t) ==
    /\ loop[t].pc = "batch"
    /\ triage.pc = "idle"
    /\ loop[t].todo # <<>>
    /\ (triage' # triage \/ loop'[t].todo # loop[t].todo)

\* C12: no message ever has two outstanding actions of the triage loop, and
\* the loop never calls process_email for a message that has one.
C12_NoSecondProposal ==
    /\ [](\A m \in DOMAIN unread : Cardinality(Outstanding(m)) <= 1)
    /\ [][ \A t \in Tasks :
              CallsProcessEmail(t) => Outstanding(Head(loop[t].todo)) = {} ]_vars

\* C12 witness: an iteration listed both unread messages and skipped them,
\* each having its pending action
C12_Witness ==
    \E t \in Tasks :
       /\ loop[t].pc = "sleeping"
       /\ loop[t].fetched = "ok"
       /\ loop[t].batch = <<>>
       /\ \A m \in DOMAIN unread : Outstanding(m) # {}
       /\ DOMAIN unread = {"m1", "m2"}

\* a task that is inside the while loop of run_loop
InLoop(t) == loop[t].pc \in {"batch", "sleeping"}

\* C17: whatever the interleaving of start and stop, at most one run_loop task
\* is iterating: no two tasks are inside the while loop with the flag set.
C17_SingleLoop ==
    \A t, u \in Tasks : (t # u /\ running) => ~(InLoop(t) /\ InLoop(u))

\* task t passes `while self.running` and starts an iteration
BeginsIteration(t) ==
    /\ loop[t].pc \in {"scheduled", "sleeping"}
    /\ loop'[t].pc \in {"batch", "sleeping"}
    /\ loop'[t] # loop[t]

\* C18: once stop() was called and no start followed, no task begins an
\* iteration and the running flag stays false.
C18_StopPreventsNextIteration ==
    [][ stop_called => (~running' /\ \A t \in Tasks : ~BeginsIteration(t)) ]_vars

\* C19: an iteration in flight is not cut short by stop(): the for loop goes
\* through its candidates one by one whatever the flag says, and when the
\* task reaches its sleep every candidate of the batch was processed.
C19_StopDoesNotInterrupt ==
    /\ [](\A t \in Tasks :
             (loop[t].pc = "sleeping" /\ loop[t].fetched = "ok")
                => loop[t].done = loop[t].batch)
    /\ [][ \A t \in Tasks :
              loop[t].pc = "batch" =>
                 /\ loop'[t].pc \in {"batch", "sleeping"}
                 /\ loop'[t].todo \in {loop[t].todo, Tail(loop[t].todo)} ]_vars

\* C19 witness: stop() arrived during an iteration over two candidates, and the
\* iteration ended with both processed
C19_Witness ==
    \E t \in Tasks :
       /\ loop[t].pc = "sleeping"
       /\ loop[t].stop_in_flight
       /\ ~running
       /\ Len(loop[t].batch) = 2
       /\ loop[t].done = loop[t].batch

\* C20: an exception while one candidate is processed does not reach the later
\* candidates of the batch: each of them is processed, and none of them fails
\* on the state the earlier exception left behind.
C20_FailureIsolated ==
    \A t \in Tasks :
       (loop[t].pc = "sleeping" /\ loop[t].fetched = "ok") =>
          \A k \in 1..Len(loop[t].batch) :
             /\ loop[t].batch[k] \in DOMAIN triage_log
             /\ triage_log[loop[t].batch[k]].outcome # "session_error"

\* C21: a failure of the iteration as a whole does not end the loop: the task
\* is left sleeping with the running flag set, and a task leaves the while
\* loop only when the flag is false.
C21_IterationFailureSurvived ==
    [][ \A t \in Tasks :
           /\ (loop'[t].pc = "done" /\ loop[t].pc # "done") => ~running
           /\ (loop'[t].fetched = "failed" /\ loop'[t] # loop[t])
                 => (loop'[t].pc = "sleeping" /\ running') ]_vars

\* C21 witness: the fetch of an iteration failed and the task sleeps, the flag
\* still set
C21_Witness ==
    \E t \in Tasks :
       loop[t].fetched = "failed" /\ loop[t].pc = "sleeping" /\ running

\* the messages whose processing stopped after the commit of the Email row and
\* before the commit of the Action row
Orphaned ==
    {m \in DOMAIN emails \cap DOMAIN triage_log :
        /\ triage_log[m].outcome = "error"
        /\ triage_log[m].classification # None
        /\ ~emails[m].processed
        /\ \A i \in ActionIds : actions[i].email_id # m}

\* C23: a message stored without its action is a candidate of the next triage
\* pass as long as the provider lists it.
C23_OrphanRetried ==
    \A m \in Orphaned : m \in DOMAIN unread => m \in check_for_new_emails

\* a step of the triage loop
TriageStep == triage' # triage \/ loop' # loop

\* C30: a step of the triage loop leaves the stored actions as they are or
\* adds one action in status pending; it changes and deletes none.
C30_LoopOnlyAddsPending ==
    [][ TriageStep =>
           \/ actions' = actions
           \/ /\ Len(actions') = Len(actions) + 1
              /\ SubSeq(actions', 1, Len(actions)) = actions
              /\ actions'[Len(actions')].status = "pending" ]_vars

\* C30 witness: the loop has added an action while another one was stored
C30_Witness ==
    /\ Len(actions) = 2
    /\ \A i \in ActionIds : actions[i].status = "pending"
    /\ \E t \in Tasks : loop[t].done # <<>>

\* the candidates when only the stored messages are consulted
StoreCandidates == {m \in DOMAIN unread : m \notin DOMAIN emails}

\* C24: the candidates of check_for_new_emails are the same with and without
\* the seen set: every unread id of the seen set is also a stored message.
C24_SeenSetRedundant == check_for_new_emails = StoreCandidates

\* the stored unprocessed messages that have no action
DemoExpected ==
    {m \in DOMAIN emails :
        ~emails[m].processed /\ \A i \in ActionIds : actions[i].email_id # m}

\* C25: in demo mode every call of check_for_new_emails returns, and returns
\* exactly the stored unprocessed messages without action, whatever the seen
\* set holds.
C25_DemoCandidates ==
    \A t \in Tasks :
       loop[t].fetched # "none" =>
          /\ loop[t].fetched = "ok"
          /\ {loop[t].batch[i] : i \in DOMAIN loop[t].batch} = DemoExpected

\* C22: whenever a task of the loop that has slept before goes to sleep
\* again, it sleeps for the interval the configuration row holds at that
\* moment.
C22_SleepUsesStoredInterval ==
    [][ \A t \in Tasks :
           (loop[t].pc = "sleeping" /\ loop'[t] # loop[t]
               /\ loop'[t].pc = "sleeping" /\ 1 \in DOMAIN agent_config)
              => loop'[t].check_interval = agent_config[1].check_interval ]_vars

\* C28: the configuration table never holds more than one row; a row is never
\* removed; the row that appears in an empty table is the row 1 with the
\* defaults; and when a read or an update ends, returning or raising, the
\* table holds exactly the row 1.
C28_SingleConfigRow ==
    [][ /\ Cardinality(DOMAIN agent_config') <= 1
        /\ DOMAIN agent_config \subseteq DOMAIN agent_config'
        /\ (DOMAIN agent_config = {} /\ DOMAIN agent_config' # {})
              => agent_config' = (1 :> DefaultConfig)
        /\ \A w \in Workers :
              ((session[w].pc # "idle" /\ session'[w].pc = "idle")
                  \/ (response' # response))
                 => DOMAIN agent_config' = {1} ]_vars

\* C28 witness: two first reads raced, the insert of the second failed, and
\* the table holds the one row
C28_Witness ==
    /\ response.kind = "http500"
    /\ DOMAIN agent_config = {1}
    /\ \A w \in Workers : session[w].pc = "idle"

\* C32: the stored poll interval is a positive integer.
C32_IntervalPositive ==
    1 \in DOMAIN agent_config => agent_config[1].check_interval > 0

\* a call of the Mail Provider, the Classifier or the Responder has failed
CallFailed ==
    \/ \E t \in Tasks : loop[t].fetched = "failed"
    \/ \E m \in DOMAIN triage_log : triage_log[m].outcome = "error"

\* the loop is running and m is unread and not stored
AwaitsTriage(m) == running /\ m \in DOMAIN unread /\ m \notin DOMAIN emails

\* m is stored with its label and has exactly one action, which is pending
Triaged(m) ==
    /\ m \in DOMAIN emails
    /\ emails[m].classification # None
    /\ Cardinality({i \in ActionIds : actions[i].email_id = m}) = 1
    /\ \A i \in ActionIds : actions[i].email_id = m => actions[i].status = "pending"

NonTerminal(m) ==
    {i \in ActionIds :
        actions[i].email_id = m /\ actions[i].status \in {"pending", "approved"}}

\* C16: however often bulk-archive is called for a sender, each of the
\* sender's messages has at most one pending or approved action.
C16_BulkArchiveIdempotent ==
    \A m \in DOMAIN emails : Cardinality(NonTerminal(m)) <= 1

\* C26: a message is marked processed only if one of its actions is in a
\* terminal status (no message is marked read in these behaviours).
C26_ProcessedNeedsTerminalAction ==
    \A m \in DOMAIN emails :
       emails[m].processed =>
          \E i \in ActionIds :
             /\ actions[i].email_id = m
             /\ actions[i].status \in {"executed", "rejected", "failed"}

====
